---- MODULE Spec2Model ----
(***************************************************************************)
(* The Games REST service of app.py: one table `games` behind five Flask   *)
(* routes.  The table is the SQLite table the model class Games declares;  *)
(* every handler is translated statement by statement.  A handler that     *)
(* issues more than one database call is split at those calls, so that     *)
(* requests served by different threads can interleave between them.       *)
(***************************************************************************)
EXTENDS Naturals, Sequences, FiniteSets, TLC

VARIABLES table, pc, req, game, resp

vars == <<table, pc, req, game, resp>>

(* ------------------------------ bounds -------------------------------- *)

\* largest primary key the model lets the table hand out
MaxId == 3

\* request threads: the sequential specification uses the first one only
Clients == {"t1", "t2"}

Names == {"a", "b"}

Descs == {"x"}

(* ------------------------------ values -------------------------------- *)

\* Python's None / JSON null / SQL NULL
None == "None"

Keys == {"name", "description"}

\* the ids a URL /games/<id> is tried with; 0 is an id no row ever has
UrlIds == 0..MaxId

\* request.json: a JSON object holding any subset of the two keys, each a
\* string or null
Bodies ==
  UNION { { b \in [D -> Names \cup Descs \cup {None}] :
              /\ ("name" \in D => b["name"] \in Names \cup {None})
              /\ ("description" \in D => b["description"] \in Descs \cup {None}) }
          : D \in SUBSET Keys }

\* a body with no key at all
EmptyBody == [k \in {} |-> None]

\* flask.request of a thread: the <id> of the URL and request.json
Request(id, body) == [id |-> id, body |-> body]

NoReq == Request(0, EmptyBody)

NoGame == [id |-> 0, name |-> None, description |-> None]

NoResp ==
  [client |-> "-", op |-> "-", req |-> NoReq, status |-> 0, body |-> [text |-> ""]]

(* --------------------------- class Games ------------------------------ *)

\* id = db.Column(db.Integer, primary_key=True): SQLite gives a new row the
\* largest id in the table plus one, 1 in an empty table
NextId(rows) ==
  IF rows = {} THEN 1
  ELSE (CHOOSE m \in {r.id : r \in rows} : \A r \in rows : r.id <= m) + 1

\* faulty variant: the column declared without unique=True
NameUnique_Unchecked(rows, g) == TRUE

\* name = db.Column(db.String(80), unique=True, nullable=False)
NameNotNull(g) == g.name # None

NameUnique(rows, g) == \A r \in rows : r.name # g.name

\* Games.query.get(id): the row with that primary key, as a set of 0 or 1 rows
QueryGet(rows, id) == {r \in rows : r.id = id}

\* Games.query.all(): the rows in the table's (rowid) order
RECURSIVE QueryAll(_)
QueryAll(rows) ==
  IF rows = {} THEN <<>>
  ELSE LET first == CHOOSE r \in rows : \A q \in rows : r.id <= q.id
       IN  <<first>> \o QueryAll(rows \ {first})

(* ----------------------------- responses ------------------------------ *)

Respond(c, op, rq, status, body) ==
  [client |-> c, op |-> op, req |-> rq, status |-> status, body |-> body]

InternalServerError == [text |-> "Internal Server Error"]

NotFound == [text |-> "Not Found"]

\* faulty variant: the id put into the dictionary as well
GameData_WithId(g) == [id |-> g.id, name |-> g.name, description |-> g.description]

\* game_data = {'name': game.name, 'description': game.description}
GameData(g) == [name |-> g.name, description |-> g.description]

\* get_games: output = [game_data for each game]; return {'games': output}
GamesOutput(rows) ==
  LET games == QueryAll(rows)
  IN  [json |-> [games |-> [i \in 1..Len(games) |-> GameData(games[i])]]]

\* faulty variant: get() and an error string, as delete_game does, instead of get_or_404()
GetGameResponse_NoAbort(c, rows, id) ==
  IF QueryGet(rows, id) = {}
  THEN Respond(c, "get_game", Request(id, EmptyBody), 200, [text |-> "Error: game not found"])
  ELSE LET g == CHOOSE r \in QueryGet(rows, id) : TRUE
       IN  Respond(c, "get_game", Request(id, EmptyBody), 200,
                   [json |-> [name |-> g.name, description |-> g.description]])

\* get_game: get_or_404(id), then {'name': ..., 'description': ...}
GetGameResponse(c, rows, id) ==
  IF QueryGet(rows, id) = {}
  THEN Respond(c, "get_game", Request(id, EmptyBody), 404, NotFound)
  ELSE LET g == CHOOSE r \in QueryGet(rows, id) : TRUE
       IN  Respond(c, "get_game", Request(id, EmptyBody), 200, [json |-> GameData(g)])

\* Games(name=request.json['name'], description=request.json['description'])
\* raises KeyError unless both keys are in the body
BodyHasKeys(body) == "name" \in DOMAIN body /\ "description" \in DOMAIN body

\* faulty variant: description=request.json['name']
NewGame_NameAsDescription(body) ==
  [id |-> 0, name |-> body["name"], description |-> body["name"]]

NewGame(body) ==
  [id |-> 0, name |-> body["name"], description |-> body["description"]]

\* the row the INSERT of db.session.commit() writes
InsertedRow(rows, g) ==
  [id |-> NextId(rows), name |-> g.name, description |-> g.description]

\* faulty variant: the UNIQUE constraint is not checked
InsertAccepted_NotNullOnly(rows, g) == g.name # None

\* the INSERT is accepted iff the NOT NULL and UNIQUE constraints hold
InsertAccepted(rows, g) == NameNotNull(g) /\ NameUnique(rows, g)

\* the table after the INSERT
TableAfterInsert(rows, g) == rows \cup {InsertedRow(rows, g)}

\* faulty variant: Games.query.delete(): every row goes
TableAfterDelete_All(rows, g) == {}

\* the table after db.session.delete(game); db.session.commit():
\* DELETE FROM games WHERE id = game.id
TableAfterDelete(rows, g) == {r \in rows : r.id # g.id}

\* return {'message': f'{game.name} deleted'}
DeletedMessage(g) == [json |-> [message |-> g.name \o " deleted"]]

(* ------------------------------ state --------------------------------- *)

Init ==
  /\ table = {}
  /\ pc = [c \in Clients |-> "idle"]
  /\ req = [c \in Clients |-> NoReq]
  /\ game = [c \in Clients |-> NoGame]
  /\ resp = NoResp

\* GET / : index()
Index(c) ==
  /\ pc[c] = "idle"
  /\ resp' = Respond(c, "index", NoReq, 200, [text |-> "Hello World"])
  /\ UNCHANGED <<table, pc, req, game>>

\* GET /games : get_games()
GetGames(c) ==
  /\ pc[c] = "idle"
  /\ resp' = Respond(c, "get_games", NoReq, 200, GamesOutput(table))
  /\ UNCHANGED <<table, pc, req, game>>

\* GET /games/<id> : get_game(id)
GetGame(c, id) ==
  /\ pc[c] = "idle"
  /\ resp' = GetGameResponse(c, table, id)
  /\ UNCHANGED <<table, pc, req, game>>

\* faulty variant: request.json.get('name', 'a'): a missing name is defaulted
AddBuild_DefaultName(c, body) ==
  /\ pc[c] = "idle"
  /\ NextId(table) <= MaxId
  /\ IF "description" \in DOMAIN body
     THEN /\ req' = [req EXCEPT ![c] = Request(0, body)]
          /\ game' = [game EXCEPT ![c] =
                        [id |-> 0,
                         name |-> IF "name" \in DOMAIN body THEN body["name"] ELSE "a",
                         description |-> body["description"]]]
          /\ pc' = [pc EXCEPT ![c] = "add_commit"]
          /\ UNCHANGED <<table, resp>>
     ELSE /\ resp' = Respond(c, "add_drink", Request(0, body), 500, InternalServerError)
          /\ UNCHANGED <<table, pc, req, game>>

\* faulty variant: request.json.get('description'): a missing description is None
AddBuild_DescriptionOptional(c, body) ==
  /\ pc[c] = "idle"
  /\ NextId(table) <= MaxId
  /\ IF "name" \in DOMAIN body
     THEN /\ req' = [req EXCEPT ![c] = Request(0, body)]
          /\ game' = [game EXCEPT ![c] =
                        [id |-> 0,
                         name |-> body["name"],
                         description |-> IF "description" \in DOMAIN body
                                         THEN body["description"] ELSE None]]
          /\ pc' = [pc EXCEPT ![c] = "add_commit"]
          /\ UNCHANGED <<table, resp>>
     ELSE /\ resp' = Respond(c, "add_drink", Request(0, body), 500, InternalServerError)
          /\ UNCHANGED <<table, pc, req, game>>

\* POST /games : add_drink(), line 88: build the Games object from the body
AddBuild(c, body) ==
  /\ pc[c] = "idle"
  /\ NextId(table) <= MaxId
  /\ IF BodyHasKeys(body)
     THEN /\ req' = [req EXCEPT ![c] = Request(0, body)]
          /\ game' = [game EXCEPT ![c] = NewGame(body)]
          /\ pc' = [pc EXCEPT ![c] = "add_commit"]
          /\ UNCHANGED <<table, resp>>
     ELSE /\ resp' = Respond(c, "add_drink", Request(0, body), 500, InternalServerError)
          /\ UNCHANGED <<table, pc, req, game>>

\* faulty variant: INSERT OR REPLACE: a row of the same name is replaced by the new one
AddCommit_Upsert(c) ==
  /\ pc[c] = "add_commit"
  /\ NextId(table) <= MaxId
  /\ IF NameNotNull(game[c])
     THEN /\ table' = {r \in table : r.name # game[c].name}
                         \cup {InsertedRow(table, game[c])}
          /\ game' = [game EXCEPT ![c] = InsertedRow(table, game[c])]
          /\ pc' = [pc EXCEPT ![c] = "add_return"]
          /\ UNCHANGED <<req, resp>>
     ELSE /\ resp' = Respond(c, "add_drink", req[c], 500, InternalServerError)
          /\ req' = [req EXCEPT ![c] = NoReq]
          /\ game' = [game EXCEPT ![c] = NoGame]
          /\ pc' = [pc EXCEPT ![c] = "idle"]
          /\ UNCHANGED table

\* add_drink(), lines 89-90: db.session.add(game); db.session.commit().
\* SQLite runs the INSERT, its constraint checks and the COMMIT under its
\* file lock, so the step is atomic; a violated constraint rolls back.
AddCommit(c) ==
  /\ pc[c] = "add_commit"
  /\ NextId(table) <= MaxId
  /\ IF InsertAccepted(table, game[c])
     THEN /\ table' = TableAfterInsert(table, game[c])
          /\ game' = [game EXCEPT ![c] = InsertedRow(table, game[c])]
          /\ pc' = [pc EXCEPT ![c] = "add_return"]
          /\ UNCHANGED <<req, resp>>
     ELSE /\ resp' = Respond(c, "add_drink", req[c], 500, InternalServerError)
          /\ req' = [req EXCEPT ![c] = NoReq]
          /\ game' = [game EXCEPT ![c] = NoGame]
          /\ pc' = [pc EXCEPT ![c] = "idle"]
          /\ UNCHANGED table

\* add_drink(), line 91: return {'id': game.id}.  The commit expired the
\* object, so reading game.id reloads the row by primary key; the reload
\* fails if another request has deleted the row in between.
AddReturn(c) ==
  /\ pc[c] = "add_return"
  /\ resp' = IF QueryGet(table, game[c].id) = {}
             THEN Respond(c, "add_drink", req[c], 500, InternalServerError)
             ELSE Respond(c, "add_drink", req[c], 200, [json |-> [id |-> game[c].id]])
  /\ req' = [req EXCEPT ![c] = NoReq]
  /\ game' = [game EXCEPT ![c] = NoGame]
  /\ pc' = [pc EXCEPT ![c] = "idle"]
  /\ UNCHANGED table

\* faulty variant: get_or_404(id), as get_game does
DelGet_Abort404(c, id) ==
  /\ pc[c] = "idle"
  /\ IF QueryGet(table, id) = {}
     THEN /\ resp' = Respond(c, "delete_game", Request(id, EmptyBody), 404, NotFound)
          /\ UNCHANGED <<table, pc, req, game>>
     ELSE /\ req' = [req EXCEPT ![c] = Request(id, EmptyBody)]
          /\ game' = [game EXCEPT ![c] = CHOOSE r \in QueryGet(table, id) : TRUE]
          /\ pc' = [pc EXCEPT ![c] = "del_commit"]
          /\ UNCHANGED <<table, resp>>

\* DELETE /games/<id> : delete_game(id), lines 96-98
DelGet(c, id) ==
  /\ pc[c] = "idle"
  /\ IF QueryGet(table, id) = {}
     THEN /\ resp' = Respond(c, "delete_game", Request(id, EmptyBody), 200,
                             [text |-> "Error: game not found"])
          /\ UNCHANGED <<table, pc, req, game>>
     ELSE /\ req' = [req EXCEPT ![c] = Request(id, EmptyBody)]
          /\ game' = [game EXCEPT ![c] = CHOOSE r \in QueryGet(table, id) : TRUE]
          /\ pc' = [pc EXCEPT ![c] = "del_commit"]
          /\ UNCHANGED <<table, resp>>

\* delete_game(id), lines 99-101
DelCommit(c) ==
  /\ pc[c] = "del_commit"
  /\ table' = TableAfterDelete(table, game[c])
  /\ resp' = Respond(c, "delete_game", req[c], 200, DeletedMessage(game[c]))
  /\ req' = [req EXCEPT ![c] = NoReq]
  /\ game' = [game EXCEPT ![c] = NoGame]
  /\ pc' = [pc EXCEPT ![c] = "idle"]

Step(c) ==
  \/ Index(c)
  \/ GetGames(c)
  \/ \E id \in UrlIds : GetGame(c, id)
  \/ \E body \in Bodies : AddBuild(c, body)
  \/ AddCommit(c)
  \/ AddReturn(c)
  \/ \E id \in UrlIds : DelGet(c, id)
  \/ DelCommit(c)

\* one request at a time
Next == Step("t1")

Spec == Init /\ [][Next]_vars

\* requests served by concurrent threads
NextConc == \E c \in Clients : Step(c)

SpecConc == Init /\ [][NextConc]_vars

(* ------------------- which step of which handler ---------------------- *)

\* thread c answered a request without leaving "idle": the response changed
Answered(c, op) ==
  /\ pc[c] = "idle" /\ pc'[c] = "idle"
  /\ resp' # resp
  /\ resp'.client = c /\ resp'.op = op

\* line 88 built the object: the POST goes on to the commit
Built(c) == pc[c] = "idle" /\ pc'[c] = "add_commit"

\* lines 89-90 ran
Committed(c) == pc[c] = "add_commit" /\ pc'[c] # "add_commit"

\* line 91 ran
Returned(c) == pc[c] = "add_return" /\ pc'[c] = "idle"

\* lines 96-97 found the row: the DELETE goes on to the commit
Found(c) == pc[c] = "idle" /\ pc'[c] = "del_commit"

\* lines 99-101 ran
Deleted(c) == pc[c] = "del_commit" /\ pc'[c] = "idle"

Stored(rows, name) == \E r \in rows : r.name = name

PostOk(c) == resp'.client = c /\ resp'.op = "add_drink" /\ resp'.status = 200

PostFailed(c) ==
  /\ resp'.client = c /\ resp'.op = "add_drink" /\ resp'.status = 500
  /\ resp'.body = [text |-> "Internal Server Error"]
  /\ pc'[c] = "idle"

\* the POST whose commit step this is added exactly one row, holding the posted
\* name and description
AddedOneRow(c) ==
  \E r \in table' :
     /\ r \notin table
     /\ table' = table \cup {r}
     /\ Cardinality(table') = Cardinality(table) + 1
     /\ r.name = req[c].body["name"]
     /\ r.description = req[c].body["description"]

\* the POST whose return step this is answered an integer id, and a GET of
\* that id issued next answers the posted name and description
ReturnedIdOfPosted(c) ==
  /\ PostOk(c)
  /\ resp'.body.json.id \in Nat
  /\ GetGameResponse(c, table', resp'.body.json.id).status = 200
  /\ GetGameResponse(c, table', resp'.body.json.id).body =
       [json |-> [name |-> req[c].body["name"],
                  description |-> req[c].body["description"]]]

(* ------------------------------- claims ------------------------------- *)

\* C1 as stated: for every table state and every request body whose name is
\* not already stored, POST /games succeeds, adds exactly one row and returns an
\* integer id whose GET, issued next, returns the posted name and description.
C1_AnyBodyWithFreshName ==
  [][\A c \in Clients :
       /\ Answered(c, "add_drink")
            => ~ ("name" \in DOMAIN resp'.req.body
                  /\ ~Stored(table, resp'.req.body["name"]))
       /\ Committed(c) /\ ~Stored(table, req[c].body["name"])
            => pc'[c] = "add_return" /\ AddedOneRow(c)
       /\ Returned(c) => ReturnedIdOfPosted(c)]_vars

\* C1, amended: for every table state and every request body that carries both
\* keys, with a non-null name not already stored, POST /games succeeds, adds
\* exactly one row and returns an integer id whose GET, issued next, returns
\* the posted name and description.
C1_PostThenGet ==
  [][\A c \in Clients :
       /\ Answered(c, "add_drink") => ~BodyHasKeys(resp'.req.body)
       /\ Built(c) => table' = table /\ BodyHasKeys(req'[c].body)
       /\ Committed(c) /\ req[c].body["name"] # None
                       /\ ~Stored(table, req[c].body["name"])
            => pc'[c] = "add_return" /\ AddedOneRow(c)
       /\ Returned(c) => table' = table /\ ReturnedIdOfPosted(c)]_vars

C1_Witness ==
  /\ resp.op = "add_drink" /\ resp.status = 200
  /\ \E r \in table :
        /\ r.id = resp.body.json.id
        /\ r.name = resp.req.body["name"]
        /\ r.description = resp.req.body["description"]
        /\ r.description \in Descs
  /\ Cardinality(table) = 2

\* C2: a POST /games whose name equals the name of a stored row fails with a
\* server error, and the table after it is the table before it.
C2_DuplicateNameFails ==
  [][\A c \in Clients :
       /\ Answered(c, "add_drink") => PostFailed(c) /\ table' = table
       /\ Built(c) => table' = table
       /\ Committed(c) /\ Stored(table, req[c].body["name"])
            => PostFailed(c) /\ table' = table]_vars

C2_Witness ==
  /\ resp.op = "add_drink" /\ resp.status = 500
  /\ BodyHasKeys(resp.req.body)
  /\ resp.req.body["name"] # None
  /\ \E r \in table : r.name = resp.req.body["name"]
  /\ pc["t1"] = "idle"

\* C3: GET /games/<id> answers 404 iff no stored row has that id; when a row
\* has it, the answer is that row's name and description with status 200; the
\* table is unchanged either way.
C3_GetGameOr404 ==
  [][\A c \in Clients :
       Answered(c, "get_game") =>
         LET hit == {r \in table : r.id = resp'.req.id}
         IN  /\ table' = table
             /\ resp'.status \in {200, 404}
             /\ resp'.status = 404 <=> hit = {}
             /\ \A r \in hit :
                  /\ resp'.status = 200
                  /\ resp'.body = [json |-> [name |-> r.name,
                                             description |-> r.description]]]_vars

C3_Witness ==
  /\ resp.op = "get_game" /\ resp.status = 404
  /\ table # {}
  /\ resp.req.id > 0

\* C4: DELETE /games/<id> for an id no stored row has answers the plain
\* string 'Error: game not found' with status 200 and leaves the table as it is.
C4_DeleteMissing ==
  [][\A c \in Clients :
       /\ Answered(c, "delete_game") =>
            /\ \A r \in table : r.id # resp'.req.id
            /\ resp'.status = 200
            /\ resp'.body = [text |-> "Error: game not found"]
            /\ table' = table
       /\ Found(c) => \E r \in table : r.id = req'[c].id]_vars

C4_Witness ==
  /\ resp.op = "delete_game" /\ resp.status = 200
  /\ resp.body = [text |-> "Error: game not found"]
  /\ \A r \in table : r.id # resp.req.id
  /\ table # {}

\* C5: DELETE /games/<id> for an id a stored row has removes that row and no
\* other, answers '<name> deleted' with the row's name, and a GET of that id
\* issued next answers 404.
C5_DeleteExisting ==
  [][\A c \in Clients :
       /\ Found(c) => table' = table /\ (\E r \in table : r.id = req'[c].id)
       /\ Deleted(c) =>
            \E r \in table :
               /\ r.id = req[c].id
               /\ table' = table \ {r}
               /\ resp'.op = "delete_game" /\ resp'.status = 200
               /\ resp'.body = [json |-> [message |-> r.name \o " deleted"]]
               /\ GetGameResponse(c, table', req[c].id).status = 404]_vars

C5_Witness ==
  /\ resp.op = "delete_game" /\ resp.status = 200
  /\ "json" \in DOMAIN resp.body
  /\ \A r \in table : r.id # resp.req.id
  /\ table # {}

\* C6: GET /games answers a list with exactly one entry per stored row, each
\* entry holding exactly the keys name and description of its row, never the id.
C6_GetGamesLists ==
  [][\A c \in Clients :
       Answered(c, "get_games") =>
         LET out == resp'.body.json.games
         IN  /\ table' = table
             /\ resp'.status = 200
             /\ Len(out) = Cardinality(table)
             /\ \A i \in 1..Len(out) :
                  /\ DOMAIN out[i] = {"name", "description"}
                  /\ \E r \in table :
                        out[i].name = r.name /\ out[i].description = r.description
             /\ \A r \in table : \E i \in 1..Len(out) : out[i].name = r.name]_vars

C6_Witness ==
  /\ resp.op = "get_games"
  /\ Len(resp.body.json.games) = 2
  /\ Cardinality(table) = 2

\* C7: a POST /games whose body has no name key fails with a server error and
\* inserts no row.
C7_MissingNameFails ==
  [][\A c \in Clients :
       /\ Answered(c, "add_drink") => PostFailed(c) /\ table' = table
       /\ Built(c) => "name" \in DOMAIN req'[c].body
       /\ Committed(c) => "name" \in DOMAIN req[c].body]_vars

C7_Witness ==
  /\ resp.op = "add_drink" /\ resp.status = 500
  /\ "name" \notin DOMAIN resp.req.body
  /\ "description" \in DOMAIN resp.req.body

\* C8: under any interleaving of concurrent POST and DELETE requests no two
\* stored rows have the same name, so of two concurrent POSTs of one new name
\* at most one has its row stored.
C8_UniqueNames ==
  \A r1 \in table : \A r2 \in table : r1.name = r2.name => r1 = r2

C8_Witness ==
  /\ pc["t1"] = "add_return" /\ pc["t2"] = "add_commit"
  /\ game["t2"].name = game["t1"].name
  /\ game["t1"] \in table

\* C9: rows are created by POST only and removed by DELETE only; a stored row
\* keeps its name and description for as long as it exists; GET /, GET /games
\* and GET /games/<id> leave the table unchanged.
C9_Frame ==
  [][/\ \A r \in table : (\E q \in table' : q.id = r.id) => r \in table'
     /\ table' \ table # {} => \E c \in Clients : Committed(c) /\ pc'[c] = "add_return"
     /\ table \ table' # {} => \E c \in Clients : Deleted(c)
     /\ \A c \in Clients :
          Answered(c, "index") \/ Answered(c, "get_games") \/ Answered(c, "get_game")
            => table' = table]_vars

C9_Witness ==
  /\ resp.op = "index" /\ resp.body = [text |-> "Hello World"]
  /\ Cardinality(table) = 2

\* C10: a POST with a fresh name and no description key fails with a server
\* error and inserts no row; the same POST with description present and null
\* succeeds and stores a row without a description.
C10_DescriptionKeyRequired ==
  [][\A c \in Clients :
       /\ Answered(c, "add_drink") => PostFailed(c) /\ table' = table
       /\ Built(c) => "description" \in DOMAIN req'[c].body /\ table' = table
       /\ Committed(c) /\ req[c].body["description"] = None
                       /\ req[c].body["name"] # None
                       /\ ~Stored(table, req[c].body["name"])
            => /\ pc'[c] = "add_return"
               /\ table' = table \cup
                    {[id |-> NextId(table), name |-> req[c].body["name"],
                      description |-> None]}
       /\ Returned(c) => PostOk(c) /\ table' = table]_vars

C10_Witness ==
  /\ resp.op = "add_drink" /\ resp.status = 500
  /\ "name" \in DOMAIN resp.req.body /\ "description" \notin DOMAIN resp.req.body
  /\ resp.req.body["name"] # None
  /\ ~Stored(table, resp.req.body["name"])
  /\ \E r \in table : r.description = None

====
